---- MODULE Spec2Model ----
(***************************************************************************)
(* GhostPrint (src/app.py): the printer transport layer.                   *)
(*                                                                         *)
(* Worker threads run _do_check_printer (the poll: _query_printer_status   *)
(* and then get_printer_state) and _do_terminal_command (_tcp_command and  *)
(* the busy probe); the Tk main loop runs the handlers of the pause and    *)
(* stop buttons.  All of them share the module-level _tcp_lock.  The       *)
(* printer and the network are the environment: a connection attempt may   *)
(* fail, the firmware sends a banner and replies as packets, a packet      *)
(* arrives at any later time, and a read with nothing to read ends by      *)
(* timeout, reset or end of stream.                                        *)
(*                                                                         *)
(* Text is a sequence of symbols [c, src]: c is the class of the piece of  *)
(* text ("T" hotend temperatures, "B" bed temperatures, "S" a byte         *)
(* progress marker, "P" paused, "N" not printing, "x" other text, "n" a    *)
(* newline) and src says why the printer sent it ("banner", or the command *)
(* it answers).                                                            *)
(*                                                                         *)
(* Spec is the specification of the worker threads.  Smaller ones follow a *)
(* part of the program each, on variables of their own: SpecRecv is        *)
(* _recv_line against a clock, SpecState is get_printer_state and the      *)
(* progress parse, SpecGcode is process_gcode (both on text given          *)
(* character by character), SpecUpload is upload_gcode, SpecHistory is     *)
(* append_history called by concurrent threads, and SpecRefresh is the     *)
(* project list (_refresh, _scan, _render_projects).                       *)
(***************************************************************************)
EXTENDS Integers, Sequences, FiniteSets, TLC

\* ------------------------------------------------------------------ bounds

\* Worker threads, and the handler the main loop runs, alive at the same
\* time.
Threads == {"w1", "w2"}

\* The banner arrives in at most this many packets.
MaxBannerPackets == 2

\* The timeout argument of a timed _recv_line is at most this many ticks.
MaxTimeout == 2

\* A timed _recv_line is followed for this many ticks.
MaxClock == 5

\* The printer stops sending once _recv_line's buf holds this many symbols.
MaxReplyLen == 4

\* An M27 reply is put together from at most this many phrases.
MaxPhrases == 3

\* A document has at most this many lines.
MaxLines == 2

\* process_gcode is applied to a document at most this many times.
MaxRuns == 3
\* Threads of _do_send alive at the same time.
Senders == {"s1", "s2"}
\* Entries appended in one session.
MaxAppends == 3

\* ---------------------------------------------------------------- constants

Free == "free"                  \* _tcp_lock unlocked
None == "None"                  \* Python's None
Empty == << >>                  \* "" / b""

RETRIES == 2                    \* _query_printer_status(retries=2)
DRAIN_BUFSIZE == 512            \* s.recv(512) in _drain_banner
RECV_BUFSIZE == 256             \* s.recv(256) in _recv_line

TermCmds == {"M105"}            \* what the terminal sends in this model

\* Values of _CFG["upload_speed_kbs"]: SettingsDialog._save takes any int, at
\* any time.
SpeedMenu == {0, 80}

\* ------------------------------------------------------------------- text

Sym(c, src) == [c |-> c, src |-> src]

Min(a, b) == IF a < b THEN a ELSE b

Take(s, n) == SubSeq(s, 1, Min(n, Len(s)))

Drop(s, n) == SubSeq(s, Min(n, Len(s)) + 1, Len(s))

HasNewline(buf) == \E i \in 1..Len(buf) : buf[i].c = "n"

IsSpace(s) == s.c = "n"

RECURSIVE LStrip(_)
LStrip(s) == IF s # << >> /\ IsSpace(Head(s)) THEN LStrip(Tail(s)) ELSE s

RECURSIVE RStrip(_)
RStrip(s) ==
    IF s # << >> /\ IsSpace(s[Len(s)]) THEN RStrip(SubSeq(s, 1, Len(s) - 1)) ELSE s

\* str.strip()
Strip(s) == RStrip(LStrip(s))

\* re.search(r'T0?:(\d+\.?\d*)\s*/(\d+\.?\d*).*B:(\d+\.?\d*)\s*/(\d+\.?\d*)', r):
\* a hotend group, then a bed group, with no newline between them ('.' does
\* not match a newline).
TempMatch(r) ==
    \E i \in 1..Len(r) : \E j \in (i + 1)..Len(r) :
        /\ r[i].c = "T"
        /\ r[j].c = "B"
        /\ \A k \in (i + 1)..(j - 1) : r[k].c # "n"

\* re.search(r'SD printing byte (\d+)/(\d+)', r27)
ProgressMatch(r) == \E i \in 1..Len(r) : r[i].c = "S"

\* get_printer_state, after its _tcp_command("M27") returned resp
StateOf(resp) ==
    IF \E i \in 1..Len(resp) : resp[i].c = "S" THEN "PRINTING"
    ELSE IF \E i \in 1..Len(resp) : resp[i].c = "P" THEN "PAUSED"
    ELSE IF \E i \in 1..Len(resp) : resp[i].c = "N" THEN "IDLE"
    ELSE None

\* ------------------------------------------------------------ the printer

\* A banner of k packets: text, and a newline at the end of the last one.
RECURSIVE BannerOf(_)
BannerOf(k) ==
    IF k = 0 THEN << >>
    ELSE IF k = 1 THEN << <<Sym("x", "banner"), Sym("n", "banner")>> >>
    ELSE << <<Sym("x", "banner")>> >> \o BannerOf(k - 1)

\* The banner the firmware sends after the connect (some variants send none).
BannerMenu == { BannerOf(k) : k \in 0..MaxBannerPackets }

\* What the firmware sends in answer to a command, as packets.
ReplyMenu(c) ==
    IF c = "M105" THEN
        { << >>,
          << <<Sym("T", c), Sym("B", c), Sym("n", c)>> >>,
          << <<Sym("T", c)>>, <<Sym("B", c), Sym("n", c)>> >>,
          << <<Sym("T", c), Sym("B", c), Sym("n", c)>>,
             <<Sym("x", c), Sym("n", c)>> >>,
          << <<Sym("x", c), Sym("n", c)>> >> }
    ELSE IF c \in {"M25", "M24", "M26"} THEN
        { << >>,
          << <<Sym("x", c), Sym("n", c)>> >> }
    ELSE
        { << >>,
          << <<Sym("S", c), Sym("n", c)>> >>,
          << <<Sym("P", c), Sym("n", c)>> >>,
          << <<Sym("N", c), Sym("n", c)>> >>,
          << <<Sym("x", c), Sym("n", c)>> >> }

\* Exceptions of the socket module; all are OSError subclasses
\* (socket.timeout is TimeoutError).
ConnectErrors == {"ConnectionRefusedError", "timeout"}
SendErrors == {"ConnectionResetError"}
IsOSError(e) == e \in {"ConnectionRefusedError", "ConnectionResetError", "timeout"}


\* ------------------------------------------------------------------ state

VARIABLES
    tcp_lock,   \* _tcp_lock: Free, or the thread whose acquire succeeded
    op,         \* what each thread runs: "idle", "poll", "term"
    pc,         \* each thread's position in its code
    cmd,        \* the cmd argument of the thread's _tcp_command
    conn,       \* the thread's socket s is open
    pending,    \* packets the printer has sent to s that have not arrived yet
    rx,         \* bytes that have arrived at s and were not read yet
    buf,        \* _recv_line's buf
    attempt,    \* _query_printer_status's loop variable
    r105,       \* _query_printer_status's r105
    r27,        \* _query_printer_status's r27
    resp,       \* what _tcp_command returned
    qret,       \* what _query_printer_status returned
    shown,      \* what _do_terminal_command appended to the terminal
    pub,        \* what _do_check_printer handed to _apply_printer_status
    acq,        \* history: the current call's acquire succeeded
    rel,        \* history: the releases of _tcp_lock the current call made
    nconn,      \* history: the connections the current call opened
    wrote,      \* history: the commands written on the call's last connection
    why,        \* history: why the current call returned what it did
    rcvend,     \* history: how the call's last _recv_line ended
    escaped,    \* history: an exception left _tcp_command
    sched,      \* calls of _schedule_printer_check that are due or on a timer
    ui_thread,  \* the slot whose handler the Tk main loop is running, or None
    queried     \* history: what get_printer_state gave the pause handler

\* One call of _recv_line against a clock (the specification SpecRecv).
VARIABLES
    rl_pc,      \* "idle", "recv" (inside the while loop), "returned"
    rl_timeout, \* the timeout argument, in ticks
    rl_buf,     \* buf
    rl_rx,      \* bytes that have arrived at s and were not read yet
    rl_open,    \* the printer has not closed the connection
    rl_wait,    \* ticks the current s.recv has been blocked
    rl_clock    \* ticks since the call began

\* get_printer_state on a reply given character by character (SpecState).
VARIABLES
    m27_resp,   \* resp, the text _tcp_command(ip, "M27") returned
    m27_parts,  \* the phrases resp was put together from
    m27_state,  \* what get_printer_state returned, "pending" before it has
    m27_prog    \* what _query_printer_status made of the text as its r27

\* process_gcode on a document given character by character (SpecGcode).
VARIABLES
    gc_text,    \* text: the document, and after a run what the run returned
    gc_secs,    \* cooling_secs
    gc_orig,    \* the document before the first run
    gc_runs     \* how many times process_gcode was applied

\* One call of upload_gcode (the specification SpecUpload).
VARIABLES
    up_pc,      \* "import", "idle", "post", "json", "returned"
    up_has,     \* HAS_REQUESTS
    up_len,     \* len(content)
    up_reply,   \* history: what requests.post met, and the response it gave
    up_result   \* what upload_gcode returned: (ok, message), or an exception

\* Calls of append_history by the threads of _do_send (SpecHistory).
VARIABLES
    hs_pc,      \* per thread: "idle", "read", "open", "write"; "start" before
                \* the program has met the file
    hs_file,    \* history.json: whether it holds a JSON list, and the list
    hs_hist,    \* per thread: hist
    hs_next,    \* the number the next entry gets (entries are numbered as made)
    hs_made     \* history: the entries made since the program started

\* The project list: App._refresh, _scan and _render_projects (SpecRefresh).
VARIABLES
    rf_loading, \* self._loading
    rf_search,  \* self._search_var
    rf_sort,    \* self._sort_var
    rf_scan,    \* the arguments of the thread of _scan that is running
    rf_render,  \* self.after(0, self._render_projects, projects), not run
                \* yet: the arguments projects was scanned with
    rf_shown,   \* self._projects: the arguments it was scanned with
    rf_status   \* the status line: "scanning", "found", "error"

workers == << tcp_lock, op, pc, cmd, conn, pending, rx, buf, attempt, r105, r27,
              resp, qret, shown, pub, acq, rel, nconn, wrote, why, rcvend,
              escaped, sched, ui_thread, queried >>

ui == << ui_thread, queried >>

recv_line == << rl_pc, rl_timeout, rl_buf, rl_rx, rl_open, rl_wait, rl_clock >>

m27 == << m27_resp, m27_parts, m27_state, m27_prog >>

gcode == << gc_text, gc_secs, gc_orig, gc_runs >>

upload == << up_pc, up_has, up_len, up_reply, up_result >>

history == << hs_pc, hs_file, hs_hist, hs_next, hs_made >>

refresh == << rf_loading, rf_search, rf_sort, rf_scan, rf_render, rf_shown,
             rf_status >>

pure == << recv_line, m27, gcode, upload, history, refresh >>

\* what the steps of one function's specification leave alone
outside_recv == << workers, m27, gcode, upload, history, refresh >>
outside_m27 == << workers, recv_line, gcode, upload, history, refresh >>
outside_gcode == << workers, recv_line, m27, upload, history, refresh >>
outside_upload == << workers, recv_line, m27, gcode, history, refresh >>
outside_history == << workers, recv_line, m27, gcode, upload, refresh >>
outside_refresh == << workers, recv_line, m27, gcode, upload, history >>

vars == << workers, pure >>

net == << conn, pending, rx >>
hist == << acq, rel, nconn, wrote, why, rcvend, escaped >>

WorkersInit ==
    /\ tcp_lock = Free
    /\ op = [t \in Threads |-> "idle"]
    /\ pc = [t \in Threads |-> "idle"]
    /\ cmd = [t \in Threads |-> ""]
    /\ conn = [t \in Threads |-> FALSE]
    /\ pending = [t \in Threads |-> << >>]
    /\ rx = [t \in Threads |-> << >>]
    /\ buf = [t \in Threads |-> << >>]
    /\ attempt = [t \in Threads |-> 0]
    /\ r105 = [t \in Threads |-> << >>]
    /\ r27 = [t \in Threads |-> << >>]
    /\ resp = [t \in Threads |-> << >>]
    /\ qret = [t \in Threads |-> None]
    /\ shown = [t \in Threads |-> ""]
    /\ pub = [t \in Threads |-> << >>]
    /\ acq = [t \in Threads |-> FALSE]
    /\ rel = [t \in Threads |-> 0]
    /\ nconn = [t \in Threads |-> 0]
    /\ wrote = [t \in Threads |-> << >>]
    /\ why = [t \in Threads |-> ""]
    /\ rcvend = [t \in Threads |-> ""]
    /\ escaped = [t \in Threads |-> FALSE]
    /\ sched = 1
    /\ ui_thread = None
    /\ queried = [t \in Threads |-> ""]

\* no call of _recv_line is being timed
RlIdle ==
    /\ rl_pc = "idle"
    /\ rl_timeout = 0
    /\ rl_buf = << >>
    /\ rl_rx = << >>
    /\ rl_open = TRUE
    /\ rl_wait = 0
    /\ rl_clock = 0

\* get_printer_state has not been given a reply
StIdle ==
    /\ m27_resp = << >>
    /\ m27_parts = 0
    /\ m27_state = "pending"
    /\ m27_prog = [parsed |-> FALSE, pm |-> FALSE, done |-> 0, total |-> 0]

\* process_gcode has not been given a document
GcIdle ==
    /\ gc_text = << >>
    /\ gc_secs = 0
    /\ gc_orig = << >>
    /\ gc_runs = 0

\* the module has not got to its "import requests"
NoReply == [met |-> "", read_timeout |-> 0, status |-> 0,
            body |-> [kind |-> "", has_err |-> FALSE, err |-> [t |-> "", v |-> 0]]]
NoResult == [ok |-> FALSE, msg |-> "", raised |-> FALSE]

UpIdle ==
    /\ up_pc = "import"
    /\ up_has = FALSE
    /\ up_len = 0
    /\ up_reply = NoReply
    /\ up_result = NoResult

\* history.json as text that is no JSON list: no file, or a file cut to
\* nothing
NoList == [ok |-> FALSE, entries |-> << >>]

HsIdle ==
    /\ hs_pc = [t \in Senders |-> "start"]
    /\ hs_file = NoList
    /\ hs_hist = [t \in Senders |-> << >>]
    /\ hs_next = 1
    /\ hs_made = 0

\* no scan: nothing to scan with
NoArgs == [set |-> FALSE, search |-> << >>, sort |-> ""]

\* App.__init__: self._loading = False, the search text empty, the sort key
\* "date", and then self._refresh(): the first scan is running
RfIdle ==
    /\ rf_loading = TRUE
    /\ rf_search = << >>
    /\ rf_sort = "date"
    /\ rf_scan = [set |-> TRUE, search |-> << >>, sort |-> "date"]
    /\ rf_render = NoArgs
    /\ rf_shown = NoArgs
    /\ rf_status = "scanning"

Init == WorkersInit /\ RlIdle /\ StIdle /\ GcIdle /\ UpIdle /\ HsIdle /\ RfIdle

\* where the specification of a single function starts
PureInit ==
    WorkersInit /\ RlIdle /\ StIdle /\ GcIdle /\ UpIdle /\ HsIdle /\ RfIdle

\* ---------------------------------------------------------------- sockets

\* socket.create_connection succeeded: a fresh socket, and the banner on its way
Open(t, banner) ==
    /\ conn' = [conn EXCEPT ![t] = TRUE]
    /\ pending' = [pending EXCEPT ![t] = banner]
    /\ rx' = [rx EXCEPT ![t] = << >>]
    /\ nconn' = [nconn EXCEPT ![t] = @ + 1]
    /\ wrote' = [wrote EXCEPT ![t] = << >>]

\* the with block is left: s.close()
Close(t) ==
    /\ conn' = [conn EXCEPT ![t] = FALSE]
    /\ pending' = [pending EXCEPT ![t] = << >>]
    /\ rx' = [rx EXCEPT ![t] = << >>]

\* a packet of the printer arrives at the socket
Deliver(t) ==
    /\ conn[t]
    /\ pending[t] # << >>
    /\ rx' = [rx EXCEPT ![t] = @ \o Head(pending[t])]
    /\ pending' = [pending EXCEPT ![t] = Tail(@)]
    /\ UNCHANGED << tcp_lock, op, pc, cmd, conn, buf, attempt, r105, r27, resp,
                    qret, shown, pub, hist >>
    /\ UNCHANGED << sched, ui, pure >>

\* _drain_banner: one recv(512); a timeout or an OSError is passed over
DrainBanner(t) == rx' = [rx EXCEPT ![t] = Drop(@, DRAIN_BUFSIZE)]

\* One turn of _recv_line's loop: [buf, rest, end]; end is "" while the loop
\* goes on, "newline" after the break on b'\n' in buf, "nodata" after the
\* break on an empty chunk, socket.timeout or OSError.
RecvTurn(t) ==
    IF rx[t] # << >>
    THEN LET nb == buf[t] \o Take(rx[t], RECV_BUFSIZE)
         IN  [buf |-> nb, rest |-> Drop(rx[t], RECV_BUFSIZE),
              end |-> IF HasNewline(nb) THEN "newline" ELSE ""]
    ELSE [buf |-> buf[t], rest |-> rx[t], end |-> "nodata"]

\* ------------------------------------------------------------ _tcp_command

\* Mutant: the except clause names socket.timeout alone.
TcpCommandCatches_TimeoutOnly(e) == e = "timeout"

\* except (socket.timeout, OSError)
TcpCommandCatches(e) == e = "timeout" \/ IsOSError(e)

\* where _tcp_command's caller goes on
TcReturnPc(t) ==
    IF op[t] = "term" THEN "term_check"
    ELSE IF op[t] = "poll" THEN "poll_publish"
    ELSE IF cmd[t] = "M27" THEN "pause_decide"
    ELSE "ui_status"

\* Mutant: the result of acquire is not looked at, the call goes on either way.
TcAcquire_Ungated(t) ==
    /\ pc[t] = "tc_acquire"
    /\ tcp_lock' = IF tcp_lock = Free THEN t ELSE tcp_lock
    /\ acq' = [acq EXCEPT ![t] = (tcp_lock = Free)]
    /\ pc' = [pc EXCEPT ![t] = "tc_connect"]
    /\ UNCHANGED << op, cmd, net, buf, attempt, r105, r27, resp, qret, shown,
                    pub, rel, nconn, wrote, why, rcvend, escaped >>
    /\ UNCHANGED << sched, ui, pure >>

\* if not _tcp_lock.acquire(timeout=5.0): return ""
TcAcquire(t) ==
    /\ pc[t] = "tc_acquire"
    /\ \/ /\ tcp_lock = Free
          /\ tcp_lock' = t
          /\ acq' = [acq EXCEPT ![t] = TRUE]
          /\ pc' = [pc EXCEPT ![t] = "tc_connect"]
          /\ UNCHANGED << resp, why >>
       \/ /\ tcp_lock # Free
          /\ resp' = [resp EXCEPT ![t] = Empty]
          /\ why' = [why EXCEPT ![t] = "busy"]
          /\ pc' = [pc EXCEPT ![t] = TcReturnPc(t)]
          /\ UNCHANGED << tcp_lock, acq >>
    /\ UNCHANGED << op, cmd, net, buf, attempt, r105, r27, qret, shown, pub,
                    rel, nconn, wrote, rcvend, escaped >>
    /\ UNCHANGED << sched, ui, pure >>

\* Mutant: the release sits at the end of the try body, not in a finally
\* clause, so the except path returns without it.
TcRaise_NoRelease(t, e) ==
    /\ Close(t)
    /\ pc' = [pc EXCEPT ![t] = TcReturnPc(t)]
    /\ resp' = [resp EXCEPT ![t] = Empty]
    /\ why' = [why EXCEPT ![t] = "transport"]
    /\ escaped' = [escaped EXCEPT ![t] = ~TcpCommandCatches(e)]

\* an exception e inside _tcp_command's try: the with block closes s, the
\* except clause returns "" or e goes on to the caller; finally comes next
TcRaise(t, e) ==
    /\ Close(t)
    /\ pc' = [pc EXCEPT ![t] = "tc_finally"]
    /\ resp' = [resp EXCEPT ![t] = Empty]
    /\ why' = [why EXCEPT ![t] = "transport"]
    /\ escaped' = [escaped EXCEPT ![t] = ~TcpCommandCatches(e)]

\* with socket.create_connection((ip, 8080), timeout=timeout) as s
TcConnect(t) ==
    /\ pc[t] = "tc_connect"
    /\ \/ /\ \E b \in BannerMenu : Open(t, b)
          /\ pc' = [pc EXCEPT ![t] = "tc_drain"]
          /\ UNCHANGED << resp, why, escaped >>
       \/ /\ \E e \in ConnectErrors : TcRaise(t, e)
          /\ UNCHANGED << nconn, wrote >>
    /\ UNCHANGED << tcp_lock, op, cmd, buf, attempt, r105, r27, qret, shown,
                    pub, acq, rel, rcvend >>
    /\ UNCHANGED << sched, ui, pure >>

\* _drain_banner(s); s.settimeout(timeout)
TcDrain(t) ==
    /\ pc[t] = "tc_drain"
    /\ DrainBanner(t)
    /\ pc' = [pc EXCEPT ![t] = "tc_send"]
    /\ UNCHANGED << tcp_lock, op, cmd, conn, pending, buf, attempt, r105, r27,
                    resp, qret, shown, pub, hist >>
    /\ UNCHANGED << sched, ui, pure >>

\* Mutant: a send that failed is tried again on a fresh connection.
TcSend_Retries(t) ==
    /\ pc[t] = "tc_send"
    /\ \/ /\ \E r \in ReplyMenu(cmd[t]) :
                pending' = [pending EXCEPT ![t] = @ \o r]
          /\ wrote' = [wrote EXCEPT ![t] = Append(@, cmd[t])]
          /\ buf' = [buf EXCEPT ![t] = << >>]
          /\ pc' = [pc EXCEPT ![t] = "tc_recv"]
          /\ UNCHANGED << conn, rx >>
       \/ /\ Close(t)
          /\ pc' = [pc EXCEPT ![t] = "tc_connect"]
          /\ UNCHANGED << wrote, buf >>
    /\ UNCHANGED << tcp_lock, op, cmd, attempt, r105, r27, resp, qret, shown,
                    pub, acq, rel, nconn, why, rcvend, escaped >>
    /\ UNCHANGED << sched, ui, pure >>

\* s.sendall((cmd + "\r\n").encode())
TcSend(t) ==
    /\ pc[t] = "tc_send"
    /\ \/ /\ \E r \in ReplyMenu(cmd[t]) :
                pending' = [pending EXCEPT ![t] = @ \o r]
          /\ wrote' = [wrote EXCEPT ![t] = Append(@, cmd[t])]
          /\ buf' = [buf EXCEPT ![t] = << >>]
          /\ pc' = [pc EXCEPT ![t] = "tc_recv"]
          /\ UNCHANGED << conn, rx, resp, why, escaped >>
       \/ /\ \E e \in SendErrors : TcRaise(t, e)
          /\ UNCHANGED << wrote, buf >>
    /\ UNCHANGED << tcp_lock, op, cmd, attempt, r105, r27, qret, shown, pub,
                    acq, rel, nconn, rcvend >>
    /\ UNCHANGED << sched, ui, pure >>

\* return _recv_line(s, timeout): one turn of the loop; at its end the with
\* block closes s
TcRecv(t) ==
    /\ pc[t] = "tc_recv"
    /\ LET r == RecvTurn(t) IN
       IF r.end = ""
       THEN /\ buf' = [buf EXCEPT ![t] = r.buf]
            /\ rx' = [rx EXCEPT ![t] = r.rest]
            /\ UNCHANGED << pc, conn, pending, resp, why, rcvend >>
       ELSE /\ resp' = [resp EXCEPT ![t] = r.buf]
            /\ buf' = [buf EXCEPT ![t] = << >>]
            /\ rcvend' = [rcvend EXCEPT ![t] = r.end]
            /\ why' = [why EXCEPT ![t] = "reply"]
            /\ Close(t)
            /\ pc' = [pc EXCEPT ![t] = "tc_finally"]
    /\ UNCHANGED << tcp_lock, op, cmd, attempt, r105, r27, qret, shown, pub,
                    acq, rel, nconn, wrote, escaped >>
    /\ UNCHANGED << sched, ui, pure >>

\* finally: _tcp_lock.release()
TcFinally(t) ==
    /\ pc[t] = "tc_finally"
    /\ tcp_lock' = Free
    /\ rel' = [rel EXCEPT ![t] = @ + 1]
    /\ pc' = [pc EXCEPT ![t] = TcReturnPc(t)]
    /\ UNCHANGED << op, cmd, net, buf, attempt, r105, r27, resp, qret, shown,
                    pub, acq, nconn, wrote, why, rcvend, escaped >>
    /\ UNCHANGED << sched, ui, pure >>

\* --------------------------------------------------- _query_printer_status

\* if not _tcp_lock.acquire(timeout=5.0): return None
QsAcquire(t) ==
    /\ pc[t] = "qs_acquire"
    /\ \/ /\ tcp_lock = Free
          /\ tcp_lock' = t
          /\ acq' = [acq EXCEPT ![t] = TRUE]
          /\ attempt' = [attempt EXCEPT ![t] = 0]
          /\ pc' = [pc EXCEPT ![t] = "qs_connect"]
          /\ UNCHANGED << qret, why >>
       \/ /\ tcp_lock # Free
          /\ qret' = [qret EXCEPT ![t] = None]
          /\ why' = [why EXCEPT ![t] = "busy"]
          /\ pc' = [pc EXCEPT ![t] = "poll_after_query"]
          /\ UNCHANGED << tcp_lock, acq, attempt >>
    /\ UNCHANGED << op, cmd, net, buf, r105, r27, resp, shown, pub, rel, nconn,
                    wrote, rcvend, escaped >>
    /\ UNCHANGED << sched, ui, pure >>

\* except (socket.timeout, OSError) as e
QsCatchesTransport(e) == e = "timeout" \/ IsOSError(e)

\* a loop of one attempt more
QsRetries_OneMore(a) == a < RETRIES

\* if attempt < retries - 1: continue
QsRetries(a) == a < RETRIES - 1

\* return None inside the try: on to the finally clause
QsReturnNone(t, reason) ==
    /\ qret' = [qret EXCEPT ![t] = None]
    /\ why' = [why EXCEPT ![t] = reason]
    /\ pc' = [pc EXCEPT ![t] = "qs_finally"]

\* an exception e inside the attempt: the with block closes s; a transport
\* error goes on to the next attempt while one is left, anything else (and the
\* last transport error) returns None
QsRaise(t, e) ==
    /\ Close(t)
    /\ IF QsCatchesTransport(e)
       THEN IF QsRetries(attempt[t])
            THEN /\ attempt' = [attempt EXCEPT ![t] = @ + 1]
                 /\ pc' = [pc EXCEPT ![t] = "qs_connect"]
                 /\ UNCHANGED << qret, why >>
            ELSE /\ QsReturnNone(t, "transport")
                 /\ UNCHANGED attempt
       ELSE /\ QsReturnNone(t, "unexpected")
            /\ UNCHANGED attempt

\* with socket.create_connection((ip, 8080), timeout=timeout) as s
QsConnect(t) ==
    /\ pc[t] = "qs_connect"
    /\ \/ /\ \E b \in BannerMenu : Open(t, b)
          /\ pc' = [pc EXCEPT ![t] = "qs_drain"]
          /\ UNCHANGED << attempt, qret, why >>
       \/ /\ \E e \in ConnectErrors : QsRaise(t, e)
          /\ UNCHANGED << nconn, wrote >>
    /\ UNCHANGED << tcp_lock, op, cmd, buf, r105, r27, resp, shown, pub, acq,
                    rel, rcvend, escaped >>
    /\ UNCHANGED << sched, ui, pure >>

\* _drain_banner(s); s.settimeout(timeout)
QsDrain(t) ==
    /\ pc[t] = "qs_drain"
    /\ DrainBanner(t)
    /\ pc' = [pc EXCEPT ![t] = "qs_send105"]
    /\ UNCHANGED << tcp_lock, op, cmd, conn, pending, buf, attempt, r105, r27,
                    resp, qret, shown, pub, hist >>
    /\ UNCHANGED << sched, ui, pure >>

\* s.sendall(b"M105\r\n") and s.sendall(b"M27\r\n")
QsSend(t, here, c, next) ==
    /\ pc[t] = here
    /\ \/ /\ \E r \in ReplyMenu(c) : pending' = [pending EXCEPT ![t] = @ \o r]
          /\ wrote' = [wrote EXCEPT ![t] = Append(@, c)]
          /\ buf' = [buf EXCEPT ![t] = << >>]
          /\ pc' = [pc EXCEPT ![t] = next]
          /\ UNCHANGED << conn, rx, attempt, qret, why >>
       \/ /\ \E e \in SendErrors : QsRaise(t, e)
          /\ UNCHANGED << wrote, buf >>
    /\ UNCHANGED << tcp_lock, op, cmd, r105, r27, resp, shown, pub, acq, rel,
                    nconn, rcvend, escaped >>
    /\ UNCHANGED << sched, ui, pure >>

QsSend105(t) == QsSend(t, "qs_send105", "M105", "qs_recv105")

QsSend27(t) == QsSend(t, "qs_send27", "M27", "qs_recv27")

\* Mutant: the check of m is missing.
ParseFailed_Never(m) == FALSE

\* if not m: return None
ParseFailed(m) == ~m

\* r105 = _recv_line(s, timeout); m = re.search(...); if not m: return None
QsRecv105(t) ==
    /\ pc[t] = "qs_recv105"
    /\ LET r == RecvTurn(t) IN
       IF r.end = ""
       THEN /\ buf' = [buf EXCEPT ![t] = r.buf]
            /\ rx' = [rx EXCEPT ![t] = r.rest]
            /\ UNCHANGED << pc, conn, pending, r105, qret, why, rcvend >>
       ELSE /\ r105' = [r105 EXCEPT ![t] = r.buf]
            /\ buf' = [buf EXCEPT ![t] = << >>]
            /\ rcvend' = [rcvend EXCEPT ![t] = r.end]
            /\ IF ParseFailed(TempMatch(r.buf))
               THEN /\ Close(t)
                    /\ QsReturnNone(t, "parse")
               ELSE /\ rx' = [rx EXCEPT ![t] = r.rest]
                    /\ pc' = [pc EXCEPT ![t] = "qs_send27"]
                    /\ UNCHANGED << conn, pending, qret, why >>
    /\ UNCHANGED << tcp_lock, op, cmd, attempt, r27, resp, shown, pub, acq, rel,
                    nconn, wrote, escaped >>
    /\ UNCHANGED << sched, ui, pure >>

\* the dict returned: "progress" is a pair or None
StatusOf(text) == IF ProgressMatch(text) THEN "status+progress" ELSE "status"

\* r27 = _recv_line(s, timeout); pm = re.search(...); return {...}
QsRecv27(t) ==
    /\ pc[t] = "qs_recv27"
    /\ LET r == RecvTurn(t) IN
       IF r.end = ""
       THEN /\ buf' = [buf EXCEPT ![t] = r.buf]
            /\ rx' = [rx EXCEPT ![t] = r.rest]
            /\ UNCHANGED << pc, conn, pending, r27, qret, why, rcvend >>
       ELSE /\ r27' = [r27 EXCEPT ![t] = r.buf]
            /\ buf' = [buf EXCEPT ![t] = << >>]
            /\ rcvend' = [rcvend EXCEPT ![t] = r.end]
            /\ qret' = [qret EXCEPT ![t] = StatusOf(r.buf)]
            /\ why' = [why EXCEPT ![t] = "ok"]
            /\ Close(t)
            /\ pc' = [pc EXCEPT ![t] = "qs_finally"]
    /\ UNCHANGED << tcp_lock, op, cmd, attempt, r105, resp, shown, pub, acq,
                    rel, nconn, wrote, escaped >>
    /\ UNCHANGED << sched, ui, pure >>

\* finally: _tcp_lock.release()
QsFinally(t) ==
    /\ pc[t] = "qs_finally"
    /\ tcp_lock' = Free
    /\ rel' = [rel EXCEPT ![t] = @ + 1]
    /\ r105' = [r105 EXCEPT ![t] = << >>]
    /\ r27' = [r27 EXCEPT ![t] = << >>]
    /\ pc' = [pc EXCEPT ![t] = "poll_after_query"]
    /\ UNCHANGED << op, cmd, net, buf, attempt, resp, qret, shown, pub, acq,
                    nconn, wrote, why, rcvend, escaped >>
    /\ UNCHANGED << sched, ui, pure >>

\* ------------------------------------------------------ _do_check_printer

\* the history of a call that has returned is dropped
ForgetCall(t) ==
    /\ acq' = [acq EXCEPT ![t] = FALSE]
    /\ rel' = [rel EXCEPT ![t] = 0]
    /\ nconn' = [nconn EXCEPT ![t] = 0]
    /\ wrote' = [wrote EXCEPT ![t] = << >>]
    /\ rcvend' = [rcvend EXCEPT ![t] = ""]

Published(online, text, state) ==
    << [online |-> online, text |-> text, state |-> state] >>

\* threading.Thread(target=self._do_check_printer): status = _query_printer_status(ip)
PollStart(t) ==
    /\ pc[t] = "idle"
    /\ ui_thread = None
    /\ sched > 0
    /\ sched' = sched - 1
    /\ op' = [op EXCEPT ![t] = "poll"]
    /\ pc' = [pc EXCEPT ![t] = "qs_acquire"]
    /\ UNCHANGED << tcp_lock, cmd, net, buf, attempt, r105, r27, resp, qret,
                    shown, pub, hist >>
    /\ UNCHANGED << ui, pure >>

\* if status: state = get_printer_state(ip) ...  (its _tcp_command(ip, "M27"))
\* else: self.after(0, self._apply_printer_status, False, "Offline", "IDLE")
PollAfterQuery(t) ==
    /\ pc[t] = "poll_after_query"
    /\ IF qret[t] # None
       THEN /\ cmd' = [cmd EXCEPT ![t] = "M27"]
            /\ pc' = [pc EXCEPT ![t] = "tc_acquire"]
            /\ why' = [why EXCEPT ![t] = ""]
            /\ UNCHANGED << pub, sched >>
       ELSE /\ pub' = [pub EXCEPT ![t] = Published(FALSE, "Offline", "IDLE")]
            /\ sched' = sched + 1
            /\ pc' = [pc EXCEPT ![t] = "done"]
            /\ UNCHANGED << cmd, why >>
    /\ ForgetCall(t)
    /\ attempt' = [attempt EXCEPT ![t] = 0]
    /\ UNCHANGED << tcp_lock, op, net, buf, r105, r27, resp, qret, shown,
                    escaped >>
    /\ UNCHANGED << ui, pure >>

\* remaining_secs = remaining_bytes / (speed_kbs * 1000), computed when the
\* status holds a progress pair with prog[1] > 0 (the byte marker of this
\* model is one of a file that has bytes): ZeroDivisionError
DivisionFails(status, speed) == status = "status+progress" /\ speed = 0

\* state = get_printer_state(ip) or "IDLE" (an exception of _tcp_command gives
\* None too); the label; self.after(0, self._apply_printer_status, True, ...,
\* state); self.after(15_000, self._schedule_printer_check).  Nothing catches
\* an exception here: it ends the thread before either self.after.
\* speed_kbs = _CFG["upload_speed_kbs"] is what the settings hold at this
\* moment.
PollPublish(t) ==
    /\ pc[t] = "poll_publish"
    /\ \E speed_kbs \in SpeedMenu :
          LET st == IF escaped[t] THEN None ELSE StateOf(resp[t])
          IN  IF DivisionFails(qret[t], speed_kbs)
              THEN UNCHANGED << pub, sched >>
              ELSE /\ pub' = [pub EXCEPT ![t] =
                          Published(TRUE, qret[t], IF st = None THEN "IDLE" ELSE st)]
                   /\ sched' = sched + 1
    /\ pc' = [pc EXCEPT ![t] = "done"]
    /\ resp' = [resp EXCEPT ![t] = << >>]
    /\ qret' = [qret EXCEPT ![t] = None]
    /\ why' = [why EXCEPT ![t] = ""]
    /\ ForgetCall(t)
    /\ UNCHANGED << tcp_lock, op, cmd, net, buf, attempt, r105, r27, shown,
                    escaped >>
    /\ UNCHANGED << ui, pure >>

\* --------------------------------------------------- _do_terminal_command

\* threading.Thread(target=self._do_terminal_command, args=(ip, cmd)):
\* resp = _tcp_command(ip, cmd)
TermStart(t) ==
    /\ pc[t] = "idle"
    /\ ui_thread = None
    /\ \E c \in TermCmds : cmd' = [cmd EXCEPT ![t] = c]
    /\ op' = [op EXCEPT ![t] = "term"]
    /\ pc' = [pc EXCEPT ![t] = "tc_acquire"]
    /\ UNCHANGED << tcp_lock, net, buf, attempt, r105, r27, resp, qret, shown,
                    pub, hist >>
    /\ UNCHANGED << sched, ui, pure >>

\* if resp.strip(): ... "recv"
\* else: if not _tcp_lock.acquire(blocking=False): ... busy message
\*       else: the probe holds the lock
TermCheck(t) ==
    /\ pc[t] = "term_check"
    /\ IF escaped[t]
       THEN /\ pc' = [pc EXCEPT ![t] = "done"]
            /\ UNCHANGED << tcp_lock, shown >>
       ELSE IF Strip(resp[t]) # Empty
       THEN /\ shown' = [shown EXCEPT ![t] = "recv"]
            /\ pc' = [pc EXCEPT ![t] = "done"]
            /\ UNCHANGED tcp_lock
       ELSE IF tcp_lock # Free
       THEN /\ shown' = [shown EXCEPT ![t] = "busy"]
            /\ pc' = [pc EXCEPT ![t] = "done"]
            /\ UNCHANGED tcp_lock
       ELSE /\ tcp_lock' = t
            /\ pc' = [pc EXCEPT ![t] = "term_release"]
            /\ UNCHANGED shown
    /\ UNCHANGED << op, cmd, net, buf, attempt, r105, r27, resp, qret, pub,
                    hist >>
    /\ UNCHANGED << sched, ui, pure >>

\* _tcp_lock.release(); ... no-answer message
TermRelease(t) ==
    /\ pc[t] = "term_release"
    /\ tcp_lock' = Free
    /\ shown' = [shown EXCEPT ![t] = "noanswer"]
    /\ pc' = [pc EXCEPT ![t] = "done"]
    /\ UNCHANGED << op, cmd, net, buf, attempt, r105, r27, resp, qret, pub,
                    hist >>
    /\ UNCHANGED << sched, ui, pure >>

\* ------------------------------- _pause_print_action, _stop_print_action

\* The pause button's command=self._pause_print_action: the Tk main loop calls
\* the handler itself.  state = get_printer_state(ip): _tcp_command(ip, "M27")
PauseStart(t) ==
    /\ pc[t] = "idle"
    /\ ui_thread = None
    /\ ui_thread' = t
    /\ op' = [op EXCEPT ![t] = "pause"]
    /\ cmd' = [cmd EXCEPT ![t] = "M27"]
    /\ pc' = [pc EXCEPT ![t] = "tc_acquire"]
    /\ UNCHANGED << tcp_lock, net, buf, attempt, r105, r27, resp, qret, shown,
                    pub, hist, queried >>
    /\ UNCHANGED << sched, pure >>

\* Mutant: a handler that toggles, resuming whatever is not printing.
PauseCommand_Toggle(state) == IF state = "PRINTING" THEN "M25" ELSE "M24"

\* if state == "PRINTING": pause_print(ip)      (M25)
\* elif state == "PAUSED": resume_print(ip)     (M24)
\* else: the status line, and no command
PauseCommand(state) ==
    IF state = "PRINTING" THEN "M25"
    ELSE IF state = "PAUSED" THEN "M24"
    ELSE None

\* get_printer_state has returned (None when _tcp_command raised); the handler
\* branches on it
PauseDecide(t) ==
    /\ pc[t] = "pause_decide"
    /\ LET st == IF escaped[t] THEN None ELSE StateOf(resp[t])
       IN  /\ queried' = [queried EXCEPT ![t] = st]
           /\ IF PauseCommand(st) # None
              THEN /\ cmd' = [cmd EXCEPT ![t] = PauseCommand(st)]
                   /\ pc' = [pc EXCEPT ![t] = "tc_acquire"]
                   /\ UNCHANGED shown
              ELSE /\ shown' = [shown EXCEPT ![t] = "badstate"]
                   /\ pc' = [pc EXCEPT ![t] = "done"]
                   /\ UNCHANGED cmd
    /\ resp' = [resp EXCEPT ![t] = << >>]
    /\ why' = [why EXCEPT ![t] = ""]
    /\ ForgetCall(t)
    /\ UNCHANGED << tcp_lock, op, net, buf, attempt, r105, r27, qret, pub,
                    escaped, ui_thread >>
    /\ UNCHANGED << sched, pure >>

\* The stop button's command=self._stop_print_action, the question answered
\* with yes: stop_print(ip), _tcp_command(ip, "M26")
StopStart(t) ==
    /\ pc[t] = "idle"
    /\ ui_thread = None
    /\ ui_thread' = t
    /\ op' = [op EXCEPT ![t] = "stop"]
    /\ cmd' = [cmd EXCEPT ![t] = "M26"]
    /\ pc' = [pc EXCEPT ![t] = "tc_acquire"]
    /\ UNCHANGED << tcp_lock, net, buf, attempt, r105, r27, resp, qret, shown,
                    pub, hist, queried >>
    /\ UNCHANGED << sched, pure >>

\* pause_print, resume_print, stop_print: return bool(resp.strip()); the
\* handler's status line.  Nothing in the handler catches an exception.
UiStatus(t) ==
    /\ pc[t] = "ui_status"
    /\ shown' = [shown EXCEPT ![t] =
           IF escaped[t] THEN @
           ELSE IF Strip(resp[t]) # Empty THEN "ok" ELSE "failed"]
    /\ pc' = [pc EXCEPT ![t] = "done"]
    /\ resp' = [resp EXCEPT ![t] = << >>]
    /\ why' = [why EXCEPT ![t] = ""]
    /\ ForgetCall(t)
    /\ UNCHANGED << tcp_lock, op, cmd, net, buf, attempt, r105, r27, qret, pub,
                    escaped >>
    /\ UNCHANGED << sched, ui, pure >>

\* ------------------------------------------------------------- the system

\* the thread's target, or the handler, returned: the thread ends (the main
\* loop goes on), and a later one starts afresh
ThreadExit(t) ==
    /\ pc[t] = "done"
    /\ op' = [op EXCEPT ![t] = "idle"]
    /\ pc' = [pc EXCEPT ![t] = "idle"]
    /\ cmd' = [cmd EXCEPT ![t] = ""]
    /\ buf' = [buf EXCEPT ![t] = << >>]
    /\ attempt' = [attempt EXCEPT ![t] = 0]
    /\ r105' = [r105 EXCEPT ![t] = << >>]
    /\ r27' = [r27 EXCEPT ![t] = << >>]
    /\ resp' = [resp EXCEPT ![t] = << >>]
    /\ qret' = [qret EXCEPT ![t] = None]
    /\ shown' = [shown EXCEPT ![t] = ""]
    /\ pub' = [pub EXCEPT ![t] = << >>]
    /\ acq' = [acq EXCEPT ![t] = FALSE]
    /\ rel' = [rel EXCEPT ![t] = 0]
    /\ nconn' = [nconn EXCEPT ![t] = 0]
    /\ wrote' = [wrote EXCEPT ![t] = << >>]
    /\ why' = [why EXCEPT ![t] = ""]
    /\ rcvend' = [rcvend EXCEPT ![t] = ""]
    /\ escaped' = [escaped EXCEPT ![t] = FALSE]
    /\ ui_thread' = IF ui_thread = t THEN None ELSE ui_thread
    /\ queried' = [queried EXCEPT ![t] = ""]
    /\ UNCHANGED << tcp_lock, net >>
    /\ UNCHANGED << sched, pure >>

Next ==
    \E t \in Threads :
        \/ PollStart(t)
        \/ QsAcquire(t)
        \/ QsConnect(t)
        \/ QsDrain(t)
        \/ QsSend105(t)
        \/ QsRecv105(t)
        \/ QsSend27(t)
        \/ QsRecv27(t)
        \/ QsFinally(t)
        \/ PollAfterQuery(t)
        \/ PollPublish(t)
        \/ TermStart(t)
        \/ TcAcquire(t)
        \/ TcConnect(t)
        \/ TcDrain(t)
        \/ TcSend(t)
        \/ TcRecv(t)
        \/ TcFinally(t)
        \/ TermCheck(t)
        \/ TermRelease(t)
        \/ PauseStart(t)
        \/ PauseDecide(t)
        \/ StopStart(t)
        \/ UiStatus(t)
        \/ ThreadExit(t)
        \/ Deliver(t)

Spec == Init /\ [][Next]_vars

\* ------------------------------------------------- _recv_line and the clock

\* What may arrive in one packet while _recv_line reads a reply.
ChunkMenu == { << Sym("x", "M105") >>,
               << Sym("x", "M105"), Sym("n", "M105") >> }

\* s.settimeout(timeout); buf = bytearray()
RlCall ==
    /\ rl_pc = "idle"
    /\ \E tmo \in 1..MaxTimeout : rl_timeout' = tmo
    /\ rl_pc' = "recv"
    /\ rl_buf' = << >>
    /\ rl_wait' = 0
    /\ rl_clock' = 0
    /\ UNCHANGED << rl_rx, rl_open, outside_recv >>

\* the printer sends a packet and it arrives
RlArrive ==
    /\ rl_pc = "recv"
    /\ rl_open
    /\ rl_rx = << >>
    /\ Len(rl_buf) < MaxReplyLen
    /\ \E ch \in ChunkMenu : rl_rx' = ch
    /\ UNCHANGED << rl_pc, rl_timeout, rl_buf, rl_open, rl_wait, rl_clock, outside_recv >>

\* the printer closes the connection
RlPeerClose ==
    /\ rl_pc = "recv"
    /\ rl_open
    /\ rl_open' = FALSE
    /\ UNCHANGED << rl_pc, rl_timeout, rl_buf, rl_rx, rl_wait, rl_clock, outside_recv >>

\* a tick passes while s.recv(256) is blocked: nothing to read, the
\* connection open, the socket's timeout not yet reached
RlTick ==
    /\ rl_pc = "recv"
    /\ rl_open
    /\ rl_rx = << >>
    /\ rl_wait < rl_timeout
    /\ rl_clock < MaxClock
    /\ rl_wait' = rl_wait + 1
    /\ rl_clock' = rl_clock + 1
    /\ UNCHANGED << rl_pc, rl_timeout, rl_buf, rl_rx, rl_open, outside_recv >>

\* chunk = s.recv(256) returns what has arrived; buf.extend(chunk);
\* if b'\n' in buf: break.  The next s.recv starts its own wait.
RlRecvData ==
    /\ rl_pc = "recv"
    /\ rl_rx # << >>
    /\ LET nb == rl_buf \o Take(rl_rx, RECV_BUFSIZE) IN
          /\ rl_buf' = nb
          /\ rl_pc' = IF HasNewline(nb) THEN "returned" ELSE "recv"
    /\ rl_rx' = Drop(rl_rx, RECV_BUFSIZE)
    /\ rl_wait' = 0
    /\ UNCHANGED << rl_timeout, rl_open, rl_clock, outside_recv >>

\* chunk = s.recv(256) returns b'' at the end of the stream: if not chunk: break
RlRecvEof ==
    /\ rl_pc = "recv"
    /\ rl_rx = << >>
    /\ ~rl_open
    /\ rl_pc' = "returned"
    /\ UNCHANGED << rl_timeout, rl_buf, rl_rx, rl_open, rl_wait, rl_clock, outside_recv >>

\* s.recv(256) raises socket.timeout: except (socket.timeout, OSError): break
RlRecvTimeout ==
    /\ rl_pc = "recv"
    /\ rl_open
    /\ rl_rx = << >>
    /\ rl_wait = rl_timeout
    /\ rl_pc' = "returned"
    /\ UNCHANGED << rl_timeout, rl_buf, rl_rx, rl_open, rl_wait, rl_clock, outside_recv >>

\* return buf.decode(errors="ignore"); the caller closes s, a later call
\* has a socket of its own
RlReturn ==
    /\ rl_pc = "returned"
    /\ rl_pc' = "idle"
    /\ rl_timeout' = 0
    /\ rl_buf' = << >>
    /\ rl_rx' = << >>
    /\ rl_open' = TRUE
    /\ rl_wait' = 0
    /\ rl_clock' = 0
    /\ UNCHANGED << outside_recv >>

RlNext ==
    \/ RlCall
    \/ RlArrive
    \/ RlPeerClose
    \/ RlTick
    \/ RlRecvData
    \/ RlRecvEof
    \/ RlRecvTimeout
    \/ RlReturn

SpecRecv == PureInit /\ [][RlNext]_vars

\* -------------------------------------------------------- text as characters

UpperCase == << "A", "B", "C", "D", "E", "F", "G", "H", "I", "J", "K", "L", "M",
                "N", "O", "P", "Q", "R", "S", "T", "U", "V", "W", "X", "Y", "Z" >>
LowerCase == << "a", "b", "c", "d", "e", "f", "g", "h", "i", "j", "k", "l", "m",
                "n", "o", "p", "q", "r", "s", "t", "u", "v", "w", "x", "y", "z" >>
DigitChars == << "0", "1", "2", "3", "4", "5", "6", "7", "8", "9" >>

IsDigit(c) == \E i \in 1..Len(DigitChars) : DigitChars[i] = c

\* re.IGNORECASE on one character
ToLower(c) ==
    IF \E i \in 1..Len(UpperCase) : UpperCase[i] = c
    THEN LowerCase[CHOOSE i \in 1..Len(UpperCase) : UpperCase[i] = c]
    ELSE c

LowerText(text) == [i \in 1..Len(text) |-> ToLower(text[i])]

\* the literal lit stands in text at position i
MatchAt(text, i, lit) ==
    /\ i + Len(lit) - 1 <= Len(text)
    /\ \A j \in 1..Len(lit) : text[i + j - 1] = lit[j]

\* \d+/\d+ stands in text at position p
FractionAt(text, p) ==
    \E a \in p..(Len(text) - 2) :
        /\ \A j \in p..a : IsDigit(text[j])
        /\ text[a + 1] = "/"
        /\ IsDigit(text[a + 2])

\* -------------------------------------------------------- get_printer_state

SdPrintingByte == << "S", "D", " ", "p", "r", "i", "n", "t", "i", "n", "g", " ", "b", "y", "t", "e", " " >>
PausedWord == << "p", "a", "u", "s", "e", "d" >>
NotSdPrinting == << "n", "o", "t", " ", "s", "d", " ", "p", "r", "i", "n", "t", "i", "n", "g" >>

\* re.search(r'SD printing byte \d+/\d+', resp)
SearchByteMarker(reply) ==
    \E i \in 1..Len(reply) :
        MatchAt(reply, i, SdPrintingByte) /\ FractionAt(reply, i + Len(SdPrintingByte))

\* re.search(r'paused', resp, re.IGNORECASE)
SearchPaused(reply) ==
    LET low == LowerText(reply)
    IN  \E i \in 1..Len(reply) : MatchAt(low, i, PausedWord)

\* re.search(r'not sd printing', resp, re.IGNORECASE)
SearchNotPrinting(reply) ==
    LET low == LowerText(reply)
    IN  \E i \in 1..Len(reply) : MatchAt(low, i, NotSdPrinting)

\* Mutant: the pause pattern is tried before the byte marker.
get_printer_state_PausedFirst(reply) ==
    IF SearchPaused(reply) THEN "PAUSED"
    ELSE IF SearchByteMarker(reply) THEN "PRINTING"
    ELSE IF SearchNotPrinting(reply) THEN "IDLE"
    ELSE None

\* get_printer_state, after resp = _tcp_command(ip, "M27")
get_printer_state(reply) ==
    IF SearchByteMarker(reply) THEN "PRINTING"
    ELSE IF SearchPaused(reply) THEN "PAUSED"
    ELSE IF SearchNotPrinting(reply) THEN "IDLE"
    ELSE None

\* the index of the last digit of the run of digits that starts at p (p - 1
\* when text has no digit there): what a greedy \d+ takes
RECURSIVE DigitRunEnd(_, _)
DigitRunEnd(text, p) ==
    IF p <= Len(text) /\ IsDigit(text[p]) THEN DigitRunEnd(text, p + 1) ELSE p - 1

DigitValue(c) == (CHOOSE i \in 1..Len(DigitChars) : DigitChars[i] = c) - 1

\* int() of the digits text[a..b]
RECURSIVE IntOf(_, _, _)
IntOf(text, a, b) ==
    IF b < a THEN 0 ELSE 10 * IntOf(text, a, b - 1) + DigitValue(text[b])

\* pm = re.search(r'SD printing byte (\d+)/(\d+)', r27): the leftmost match,
\* each group the whole run of digits;
\* (int(pm.group(1)), int(pm.group(2))) if pm else None
ParseProgress(r) ==
    IF ~SearchByteMarker(r)
    THEN [parsed |-> TRUE, pm |-> FALSE, done |-> 0, total |-> 0]
    ELSE LET i == CHOOSE k \in 1..Len(r) :
                      /\ MatchAt(r, k, SdPrintingByte)
                      /\ FractionAt(r, k + Len(SdPrintingByte))
                      /\ \A j \in 1..(k - 1) :
                            ~(/\ MatchAt(r, j, SdPrintingByte)
                              /\ FractionAt(r, j + Len(SdPrintingByte)))
             p == i + Len(SdPrintingByte)
             a == DigitRunEnd(r, p)
             b == DigitRunEnd(r, a + 2)
         IN  [parsed |-> TRUE, pm |-> TRUE,
              done |-> IntOf(r, p, a), total |-> IntOf(r, a + 2, b)]

\* Pieces of M27 replies: the three replies of the docstring, the same in
\* other letter cases, a marker without its "SD", a marker cut short, a
\* marker with more bytes done than the file has, and other text.
PhraseMenu == {
    << "S", "D", " ", "p", "r", "i", "n", "t", "i", "n", "g", " ", "b", "y", "t", "e", " ", "1", "0", "/", "2", "0", "0" >>,
    << "s", "d", " ", "p", "r", "i", "n", "t", "i", "n", "g", " ", "b", "y", "t", "e", " ", "1", "0", "/", "2", "0", "0" >>,
    << "p", "r", "i", "n", "t", "i", "n", "g", " ", "b", "y", "t", "e", " ", "1", "0", "/", "2", "0", "0" >>,
    << "S", "D", " ", "p", "r", "i", "n", "t", "i", "n", "g", " ", "b", "y", "t", "e", " ", "1", "0", "/" >>,
    << "S", "D", " ", "p", "r", "i", "n", "t", "i", "n", "g", " ", "p", "a", "u", "s", "e", "d" >>,
    << "P", "A", "U", "S", "E", "D" >>,
    << "N", "o", "t", " ", "S", "D", " ", "p", "r", "i", "n", "t", "i", "n", "g" >>,
    << "n", "o", "t", " ", "s", "d", " ", "p", "r", "i", "n", "t", "i", "n", "g" >>,
    << "S", "D", " ", "p", "r", "i", "n", "t", "i", "n", "g", " ", "b", "y", "t", "e", " ", "3", "0", "0", "/", "2", "0", "0" >>,
    << "o", "k" >> }

\* the progress parse has not run
NotParsed == [parsed |-> FALSE, pm |-> FALSE, done |-> 0, total |-> 0]

\* resp grows by a phrase (a blank between two phrases)
StAppend ==
    /\ m27_state = "pending"
    /\ m27_prog = NotParsed
    /\ m27_parts < MaxPhrases
    /\ \E ph \in PhraseMenu :
          m27_resp' = IF m27_resp = << >> THEN ph ELSE m27_resp \o << " " >> \o ph
    /\ m27_parts' = m27_parts + 1
    /\ UNCHANGED << m27_state, m27_prog, outside_m27 >>

\* get_printer_state returns
StInterpret ==
    /\ m27_state = "pending"
    /\ m27_state' = get_printer_state(m27_resp)
    /\ UNCHANGED << m27_resp, m27_parts, m27_prog, outside_m27 >>

\* _query_printer_status has read the text as r27:
\* pm = re.search(r'SD printing byte (\d+)/(\d+)', r27)
\* "progress": (int(pm.group(1)), int(pm.group(2))) if pm else None
StProgress ==
    /\ m27_prog = NotParsed
    /\ m27_prog' = ParseProgress(m27_resp)
    /\ UNCHANGED << m27_resp, m27_parts, m27_state, outside_m27 >>

\* the next reply
StForget ==
    /\ m27_state # "pending" \/ m27_prog # NotParsed
    /\ m27_resp' = << >>
    /\ m27_parts' = 0
    /\ m27_state' = "pending"
    /\ m27_prog' = NotParsed
    /\ UNCHANGED << outside_m27 >>

StNext ==
    \/ StAppend
    \/ StInterpret
    \/ StProgress
    \/ StForget

SpecState == PureInit /\ [][StNext]_vars

\* ------------------------------------------------------------ process_gcode

IsLetter(c) ==
    \E i \in 1..Len(UpperCase) : UpperCase[i] = c \/ LowerCase[i] = c

\* regex \w, and so the two sides of \b
IsWordChar(c) == IsLetter(c) \/ IsDigit(c) \/ c = "_"

\* the line boundaries of str.splitlines that documents of this model hold
IsLineBreak(c) == c \in {"\n", "\r"}

\* whitespace for str.strip and regex \s
IsWhite(c) == c \in {" ", "\t", "\n", "\r"}

\* text.splitlines(keepends=True): a line ends with "\n", "\r\n" or "\r" and
\* keeps it; text after the last boundary is a last line without one
RECURSIVE splitlines(_)
splitlines(text) ==
    IF text = << >> THEN << >>
    ELSE IF \A i \in 1..Len(text) : ~IsLineBreak(text[i]) THEN << text >>
    ELSE LET i == CHOOSE k \in 1..Len(text) :
                      IsLineBreak(text[k]) /\ \A j \in 1..(k - 1) : ~IsLineBreak(text[j])
             e == IF text[i] = "\r" /\ i < Len(text) /\ text[i + 1] = "\n"
                  THEN i + 1 ELSE i
         IN  << SubSeq(text, 1, e) >> \o splitlines(SubSeq(text, e + 1, Len(text)))

RECURSIVE LStripText(_)
LStripText(x) == IF x # << >> /\ IsWhite(Head(x)) THEN LStripText(Tail(x)) ELSE x

RECURSIVE RStripText(_)
RStripText(x) ==
    IF x # << >> /\ IsWhite(x[Len(x)]) THEN RStripText(SubSeq(x, 1, Len(x) - 1)) ELSE x

\* ln.strip()
StripText(x) == RStripText(LStripText(x))

M84 == << "M", "8", "4" >>

\* re.match(r'\s*M84\b', ln.strip())
MatchM84(ln) ==
    LET x == LStripText(StripText(ln))
    IN  /\ MatchAt(x, 1, M84)
        /\ (Len(x) = Len(M84) \/ ~IsWordChar(x[Len(M84) + 1]))

\* str(sec) for an int, as {sec} formats it
RECURSIVE Decimal(_)
Decimal(n) ==
    IF n < 0 THEN << "-" >> \o Decimal(0 - n)
    ELSE IF n < 10 THEN << DigitChars[n + 1] >>
    ELSE Decimal(n \div 10) \o << DigitChars[(n % 10) + 1] >>

\* COOLING_BLOCK.format(sec=sec)
COOLING_BLOCK(sec) ==
    << ";", " ", "-", "-", "-", " ", "C", "o", "o", "l", "i", "n", "g", " ", "-", "-", "-", "\n" >>
    \o << "M", "1", "0", "6", " ", "S", "2", "5", "5", "\n" >>
    \o << "G", "4", " ", "S" >> \o Decimal(sec) \o << "\n" >>
    \o << "M", "1", "0", "6", " ", "S", "0", "\n" >>
    \o << ";", " ", "-", "-", "-", "\n" >>

\* "".join(out)
RECURSIVE Join(_)
Join(out) == IF out = << >> THEN << >> ELSE Head(out) \o Join(Tail(out))

\* Mutant: the block is appended after the M84 line.
RECURSIVE InjectBefore_After(_, _)
InjectBefore_After(lines, block) ==
    IF lines = << >> THEN << >>
    ELSE (IF MatchM84(Head(lines)) THEN << Head(lines), block >> ELSE << Head(lines) >>)
         \o InjectBefore_After(Tail(lines), block)

\* Mutant: no block is appended where one already stands before the M84 line.
RECURSIVE InjectBefore_Once(_, _)
InjectBefore_Once(lines, block) ==
    LET n == Len(splitlines(block)) IN
    IF lines = << >> THEN << >>
    ELSE IF Len(lines) > n /\ Join(SubSeq(lines, 1, n)) = block /\ MatchM84(lines[n + 1])
    THEN SubSeq(lines, 1, n + 1)
         \o InjectBefore_Once(SubSeq(lines, n + 2, Len(lines)), block)
    ELSE (IF MatchM84(Head(lines)) THEN << block, Head(lines) >> ELSE << Head(lines) >>)
         \o InjectBefore_Once(Tail(lines), block)

\* for ln in lines: if re.match(...): out.append(block); out.append(ln)
RECURSIVE InjectBefore(_, _)
InjectBefore(lines, block) ==
    IF lines = << >> THEN << >>
    ELSE (IF MatchM84(Head(lines)) THEN << block, Head(lines) >> ELSE << Head(lines) >>)
         \o InjectBefore(Tail(lines), block)

\* found_m84 after the loop
found_m84(lines) == \E i \in 1..Len(lines) : MatchM84(lines[i])

\* Mutant: the M84 line is appended without a block.
Synthesized_NoBlock(block) == << M84 \o << "\n" >> >>

\* if not found_m84: out.append(block); out.append("M84\n")
Synthesized(block) == << block, M84 \o << "\n" >> >>

\* Mutant: the test of cooling_secs is missing.
ZeroCooling_Never(cooling_secs) == FALSE

\* if cooling_secs == 0: return text
ZeroCooling(cooling_secs) == cooling_secs = 0

process_gcode(text, cooling_secs) ==
    IF ZeroCooling(cooling_secs) THEN text
    ELSE LET lines == splitlines(text)
             block == COOLING_BLOCK(cooling_secs)
         IN  Join(InjectBefore(lines, block)
                  \o (IF found_m84(lines) THEN << >> ELSE Synthesized(block)))

\* Values of cooling_secs: the dialog starts from _CFG["default_cooling"], any
\* int of the settings, and offers COOLING_OPTIONS.
CoolingMenu == {0, 60, -5}

\* Lines of documents: M84 alone, with arguments, indented, with a comment
\* glued on; M840 and a commented M84, which are not M84 lines; a move; a
\* blank line.
BodyMenu == {
    << "M", "8", "4" >>,
    << "M", "8", "4", " ", "X", " ", "Y" >>,
    << " ", " ", "M", "8", "4" >>,
    << "M", "8", "4", ";", "o", "f", "f" >>,
    << "M", "8", "4", "0" >>,
    << ";", " ", "M", "8", "4" >>,
    << "G", "1", " ", "X", "0" >>,
    << >> }

\* How a line ends; a line without an ending is the document's last.
EndingMenu == { << "\n" >>, << "\r", "\n" >>, << >> }

EndsWithBreak(text) == IF text = << >> THEN TRUE ELSE IsLineBreak(text[Len(text)])

\* cooling_secs is chosen (it is 0 until then)
GcChooseSecs ==
    /\ gc_runs = 0
    /\ gc_secs = 0
    /\ \E c \in CoolingMenu \ {0} : gc_secs' = c
    /\ UNCHANGED << gc_text, gc_orig, gc_runs, outside_gcode >>

\* the document grows by a line
GcAddLine ==
    /\ gc_runs = 0
    /\ EndsWithBreak(gc_text)
    /\ Len(splitlines(gc_text)) < MaxLines
    /\ \E b \in BodyMenu : \E e \in EndingMenu :
          /\ b \o e # << >>
          /\ gc_text' = gc_text \o b \o e
          /\ gc_orig' = gc_text \o b \o e
    /\ UNCHANGED << gc_secs, gc_runs, outside_gcode >>

\* processed = process_gcode(text, cooling_secs), on the document or on what
\* the run before returned
GcProcess ==
    /\ gc_runs < MaxRuns
    /\ gc_text' = process_gcode(gc_text, gc_secs)
    /\ gc_runs' = gc_runs + 1
    /\ UNCHANGED << gc_secs, gc_orig, outside_gcode >>

GcNext ==
    \/ GcChooseSecs
    \/ GcAddLine
    \/ GcProcess

SpecGcode == PureInit /\ [][GcNext]_vars

\* -------------------------------------------------------------- upload_gcode

\* A value of a parsed JSON document, as Python holds it: v is the number, 1
\* and 0 for True and False, the number in tenths for a float, the number a
\* str spells.
Json(t, v) == [t |-> t, v |-> v]

\* What may stand under "err" in the printer's answer.
ErrMenu == { Json("int", 0), Json("int", 1), Json("int", -1),
             Json("float", 0), Json("float", 5),
             Json("bool", 0), Json("bool", 1),
             Json("null", 0), Json("str", 0) }

\* The bodies of the printer's answer: a JSON object with "err", one without,
\* a JSON array, a JSON number, and text that is no JSON.
ResponseMenu ==
    { [kind |-> "object", has_err |-> TRUE, err |-> e] : e \in ErrMenu }
    \cup { [kind |-> k, has_err |-> FALSE, err |-> Json("", 0)] :
               k \in {"object", "array", "number", "text"} }

HttpStatusMenu == {200, 500}
ContentLenMenu == {0, 1024, 1048576}
PostErrors == {"Timeout", "ConnectionError"}

\* max(a, b)
Max(a, b) == IF a >= b THEN a ELSE b

\* read_timeout = max(180, len(content) // 10_240 + 120)
ReadTimeout(len) == Max(180, (len \div 10240) + 120)

\* Mutant: the test is "not data.get('err', 1)".
EqualsZero_Falsy(x) == x.t \in {"int", "float", "bool", "null"} /\ x.v = 0

\* x == 0 in Python: a number that is zero, and False, which is the int 0
EqualsZero(x) == x.t \in {"int", "float", "bool"} /\ x.v = 0

\* data.get("err", 1)
GetErr(data) == IF data.has_err THEN data.err ELSE Json("int", 1)

\* return ok, message
UpReturns(ok, msg) ==
    /\ up_result' = [ok |-> ok, msg |-> msg, raised |-> FALSE]
    /\ up_pc' = "returned"

\* the subclasses of Exception among what the try body raises: those of
\* requests, r.json()'s ValueError, and the AttributeError of a .get on what
\* is no dict
ExceptionSubclasses == {"Timeout", "ConnectionError", "ValueError",
                        "AttributeError"}

\* except requests.Timeout / except Exception as e; anything else leaves the
\* function
UpRaise(e) ==
    IF e = "Timeout" THEN UpReturns(FALSE, "timeout")
    ELSE IF e \in ExceptionSubclasses THEN UpReturns(FALSE, "error")
    ELSE /\ up_result' = [ok |-> FALSE, msg |-> "", raised |-> TRUE]
         /\ up_pc' = "returned"

\* try: import requests; HAS_REQUESTS = True / except ImportError: ... False
UpImport ==
    /\ up_pc = "import"
    /\ up_has' \in BOOLEAN
    /\ up_pc' = "idle"
    /\ UNCHANGED << up_len, up_reply, up_result, outside_upload >>

\* upload_gcode(name, content, progress_cb):
\* if not HAS_REQUESTS: return False, ...
UpCall ==
    /\ up_pc = "idle"
    /\ \E n \in ContentLenMenu : up_len' = n
    /\ IF ~up_has
       THEN UpReturns(FALSE, "norequests")
       ELSE /\ up_pc' = "post"
            /\ UNCHANGED up_result
    /\ UNCHANGED << up_has, up_reply, outside_upload >>

\* r = requests.post(url, data=body, headers=headers, timeout=(10, read_timeout))
UpPost ==
    /\ up_pc = "post"
    /\ \/ \E e \in PostErrors :
             /\ up_reply' = [NoReply EXCEPT !.met = e,
                                            !.read_timeout = ReadTimeout(up_len)]
             /\ UpRaise(e)
       \/ \E st \in HttpStatusMenu, b \in ResponseMenu :
             /\ up_reply' = [met |-> "response",
                             read_timeout |-> ReadTimeout(up_len),
                             status |-> st, body |-> b]
             /\ up_pc' = "json"
             /\ UNCHANGED up_result
    /\ UNCHANGED << up_has, up_len, outside_upload >>

\* data = r.json(); if data.get("err", 1) == 0: return True, ...
\* return False, ...
UpJson ==
    /\ up_pc = "json"
    /\ LET data == up_reply.body
       IN  IF data.kind = "text" THEN UpRaise("ValueError")
           ELSE IF data.kind # "object" THEN UpRaise("AttributeError")
           ELSE IF EqualsZero(GetErr(data)) THEN UpReturns(TRUE, "sent")
           ELSE UpReturns(FALSE, "printer")
    /\ UNCHANGED << up_has, up_len, up_reply, outside_upload >>

\* the caller has the result; the next upload
UpForget ==
    /\ up_pc = "returned"
    /\ up_pc' = "idle"
    /\ up_len' = 0
    /\ up_reply' = NoReply
    /\ up_result' = NoResult
    /\ UNCHANGED << up_has, outside_upload >>

UpNext ==
    \/ UpImport
    \/ UpCall
    \/ UpPost
    \/ UpJson
    \/ UpForget

SpecUpload == PureInit /\ [][UpNext]_vars

\* ------------------------------------------------------------ append_history

\* hist[-200:]
HISTORY_CAP == 200

\* How many entries history.json holds when the program starts.
PriorMenu == {0, HISTORY_CAP - 1, HISTORY_CAP}

\* seq[-n:]
LastN(seq, n) ==
    IF Len(seq) <= n THEN seq ELSE SubSeq(seq, Len(seq) - n + 1, Len(seq))

\* the file as earlier sessions left it: no file, or entries 1..k
HsPrior ==
    /\ \A t \in Senders : hs_pc[t] = "start"
    /\ \E k \in PriorMenu :
          /\ hs_file' = IF k = 0 THEN NoList
                        ELSE [ok |-> TRUE, entries |-> [i \in 1..k |-> i]]
          /\ hs_next' = k + 1
    /\ hs_pc' = [t \in Senders |-> "idle"]
    /\ UNCHANGED << hs_hist, hs_made, outside_history >>

\* _do_send: append_history({...}).  hist = []; try: hist =
\* json.loads(HISTORY_FILE.read_text()) / except Exception: pass;
\* hist.append(entry)
HsRead(t) ==
    /\ hs_pc[t] = "idle"
    /\ hs_made < MaxAppends
    /\ hs_made' = hs_made + 1
    /\ hs_hist' = [hs_hist EXCEPT ![t] =
           (IF hs_file.ok THEN hs_file.entries ELSE << >>) \o << hs_next >>]
    /\ hs_next' = hs_next + 1
    /\ hs_pc' = [hs_pc EXCEPT ![t] = "open"]
    /\ UNCHANGED << hs_file, outside_history >>

\* HISTORY_FILE.write_text(...): open(mode="w") cuts the file to nothing
HsOpen(t) ==
    /\ hs_pc[t] = "open"
    /\ hs_file' = NoList
    /\ hs_pc' = [hs_pc EXCEPT ![t] = "write"]
    /\ UNCHANGED << hs_hist, hs_next, hs_made, outside_history >>

\* f.write(json.dumps(hist[-200:], indent=2)) and the close.  When another
\* thread has written since this one's open, the text is laid over that
\* thread's from the start: the file holds this thread's list, or, where the
\* other text was the longer, text that is no JSON.
HsWrite(t) ==
    /\ hs_pc[t] = "write"
    /\ \/ hs_file' = [ok |-> TRUE, entries |-> LastN(hs_hist[t], HISTORY_CAP)]
       \/ /\ hs_file.ok
          /\ hs_file' = NoList
    /\ hs_hist' = [hs_hist EXCEPT ![t] = << >>]
    /\ hs_pc' = [hs_pc EXCEPT ![t] = "idle"]
    /\ UNCHANGED << hs_next, hs_made, outside_history >>

HsNext ==
    \/ HsPrior
    \/ \E t \in Senders :
          \/ HsRead(t)
          \/ HsOpen(t)
          \/ HsWrite(t)

SpecHistory == PureInit /\ [][HsNext]_vars

\* ------------------------------------------- _refresh, _scan, _render_projects

\* What the user may have in the search field, and the keys of the sort
\* buttons.
SearchMenu == { << >>, << "a" >>, << "A", " " >>, << "b" >> }
SortMenu == {"date", "name", "size"}

\* search = self._search_var.get().lower().strip(); sort = self._sort_var.get()
ScanArgs(search, sort) ==
    [set |-> TRUE, search |-> StripText(LowerText(search)), sort |-> sort]

\* _refresh, called with the search text and sort key as they are now:
\* if self._loading: return; self._loading = True; ...; Thread(target=_scan)
Refresh(search, sort) ==
    IF rf_loading
    THEN UNCHANGED << rf_loading, rf_scan, rf_status >>
    ELSE /\ rf_loading' = TRUE
         /\ rf_scan' = ScanArgs(search, sort)
         /\ rf_status' = "scanning"

\* the search field was edited: the trace on _search_var calls _refresh
RfEditSearch ==
    /\ \E v \in SearchMenu \ {rf_search} :
          /\ rf_search' = v
          /\ Refresh(v, rf_sort)
    /\ UNCHANGED << rf_sort, rf_render, rf_shown, outside_refresh >>

\* _set_sort(key): self._sort_var.set(key); ...; self._refresh()
RfSetSort ==
    /\ \E k \in SortMenu :
          /\ rf_sort' = k
          /\ Refresh(rf_search, k)
    /\ UNCHANGED << rf_search, rf_render, rf_shown, outside_refresh >>

\* the refresh button, SettingsDialog's on_save, a card's on_reload, _on_drop
RfTrigger ==
    /\ Refresh(rf_search, rf_sort)
    /\ UNCHANGED << rf_search, rf_sort, rf_render, rf_shown, outside_refresh >>

\* _scan got to its end: self.after(0, self._render_projects, projects)
RfScanDone ==
    /\ rf_scan.set
    /\ rf_render' = rf_scan
    /\ rf_scan' = NoArgs
    /\ UNCHANGED << rf_loading, rf_search, rf_sort, rf_shown, rf_status,
                    outside_refresh >>

\* except Exception as e: self.after(0, self._set_status, ...);
\* self._loading = False
RfScanFails ==
    /\ rf_scan.set
    /\ rf_scan' = NoArgs
    /\ rf_status' = "error"
    /\ rf_loading' = FALSE
    /\ UNCHANGED << rf_search, rf_sort, rf_render, rf_shown, outside_refresh >>

\* _render_projects(projects): self._projects = projects; the cards and the
\* status line; self._loading = False
RfRender ==
    /\ rf_render.set
    /\ rf_shown' = rf_render
    /\ rf_render' = NoArgs
    /\ rf_status' = "found"
    /\ rf_loading' = FALSE
    /\ UNCHANGED << rf_search, rf_sort, rf_scan, outside_refresh >>

RfNext ==
    \/ RfEditSearch
    \/ RfSetSort
    \/ RfTrigger
    \/ RfScanDone
    \/ RfScanFails
    \/ RfRender

SpecRefresh == PureInit /\ [][RfNext]_vars

\* ================================================================ claims

QsPcs == {"qs_acquire", "qs_connect", "qs_drain", "qs_send105", "qs_recv105",
          "qs_send27", "qs_recv27", "qs_finally"}
TcPcs == {"tc_acquire", "tc_connect", "tc_drain", "tc_send", "tc_recv",
          "tc_finally"}
WirePcs == {"qs_drain", "qs_send105", "qs_recv105", "qs_send27", "qs_recv27",
            "tc_drain", "tc_send", "tc_recv"}
\* r105 is the value the query parsed
Parsed105Pcs == {"qs_send27", "qs_recv27", "qs_finally"}

InCall(t) == pc[t] \in QsPcs \cup TcPcs
QsReturned(t) == pc[t] = "poll_after_query"
TcReturned(t) == pc[t] \in {"term_check", "poll_publish", "pause_decide",
                          "ui_status"}
Returned(t) == QsReturned(t) \/ TcReturned(t)
HasBanner(text) == \E i \in 1..Len(text) : text[i].src = "banner"
Wrote(t, c) == \E i \in 1..Len(wrote[t]) : wrote[t][i] = c

\* C1: at most one connection to the printer's command port is open at any
\* instant, and a thread has its connection open, and reads or writes it, only
\* while it is the holder of _tcp_lock.
C1_OneConnection ==
    /\ Cardinality({t \in Threads : conn[t]}) <= 1
    /\ \A t \in Threads : conn[t] => tcp_lock = t
    /\ \A t \in Threads : pc[t] \in WirePcs => conn[t]

\* C1 witness: a connection is open while the other thread waits for the lock.
C1_Witness ==
    \E t, u \in Threads :
        /\ t # u
        /\ conn[t]
        /\ pc[t] \in WirePcs
        /\ pc[u] \in {"qs_acquire", "tc_acquire"}

\* the release accounting of C2, which both statements of it share
ReleaseAccount ==
    \A t \in Threads :
        /\ InCall(t) => (rel[t] = 0 /\ (acq[t] <=> tcp_lock = t))
        /\ Returned(t) => rel[t] = (IF acq[t] THEN 1 ELSE 0)
        /\ (Returned(t) /\ acq[t]) => tcp_lock # t

\* C2 (as amended): a call of _tcp_command or _query_printer_status that
\* acquired _tcp_lock holds it until it releases it exactly once before it
\* returns, on every exit path; a call whose acquire timed out never releases
\* it; and the lock is free whenever no such call is in progress and no
\* terminal handler is between the acquire and the release of its busy probe.
C2_ReleasedOnce ==
    /\ ReleaseAccount
    /\ (\A t \in Threads : ~InCall(t) /\ pc[t] # "term_release") => tcp_lock = Free

\* C2 witness: one call has returned after acquiring and releasing (here after
\* a transport failure), another has returned after its acquire timed out.
C2_Witness ==
    \E t, u \in Threads :
        /\ Returned(t) /\ acq[t] /\ rel[t] = 1 /\ why[t] = "transport"
        /\ Returned(u) /\ ~acq[u] /\ rel[u] = 0 /\ why[u] = "busy"
        /\ tcp_lock = Free

\* C2 (as claimed): ... so the lock is free whenever no call of _tcp_command
\* or _query_printer_status is in progress.
C2_Original ==
    /\ ReleaseAccount
    /\ (\A t \in Threads : ~InCall(t)) => tcp_lock = Free

\* C3 (as claimed): of two concurrent status queries the second has written
\* nothing while the first one's connection is open, and the text a query
\* parses as a reply was sent by the printer in answer to a command of that
\* query (M105 or M27 on its connection), not unsolicited.
C3_NoInterleaving ==
    /\ \A t, u \in Threads :
          (t # u /\ pc[t] \in QsPcs /\ pc[u] \in QsPcs /\ conn[t]) =>
              (wrote[u] = << >> \/ pc[u] = "qs_finally")
    /\ \A t \in Threads : pc[t] \in Parsed105Pcs =>
          \A i \in 1..Len(r105[t]) : r105[t][i].src \in {"M105", "M27"}
    /\ \A t \in Threads : pc[t] = "qs_finally" =>
          \A i \in 1..Len(r27[t]) : r27[t][i].src \in {"M105", "M27"}

\* C4: a status query whose M105 reply does not match the temperature grammar
\* returns None and has not written M27 on that connection; M27 is written
\* only after the M105 reply of the same connection has matched.
C4_ProgressOnlyAfterTemps ==
    \A t \in Threads :
        /\ (pc[t] \in Parsed105Pcs /\ ~TempMatch(r105[t])) =>
              (pc[t] = "qs_finally" /\ qret[t] = None /\ ~Wrote(t, "M27"))
        /\ (pc[t] \in QsPcs /\ Wrote(t, "M27")) =>
              (wrote[t] = << "M105", "M27" >> /\ TempMatch(r105[t]))

\* C4 witness: a query is returning after a temperature reply that arrived and
\* did not match; only M105 was written.
C4_Witness ==
    \E t \in Threads :
        /\ pc[t] = "qs_finally"
        /\ why[t] = "parse"
        /\ r105[t] # << >>
        /\ ~TempMatch(r105[t])
        /\ wrote[t] = << "M105" >>

\* C5 (as claimed): a status query all of whose attempts ended in a transport
\* failure has made its first attempt and then `retries` further ones.
C5_RetriesAfterFirst ==
    \A t \in Threads :
        (QsReturned(t) /\ why[t] = "transport") => attempt[t] + 1 = 1 + RETRIES

\* C6 (as claimed): a status query whose wait for the temperature reply ended
\* in a timeout or a closed connection returns None only when no attempt is
\* left.
C6_RetryOnReadFailure ==
    \A t \in Threads :
        (pc[t] = "qs_finally" /\ why[t] = "parse" /\ rcvend[t] = "nodata") =>
            attempt[t] = RETRIES - 1

\* what a poll gets and publishes when the printer does not answer
OfflineOutcome == None
OfflinePublished == Published(FALSE, "Offline", "IDLE")

\* C7 (as claimed): the outcome of a status query that could not acquire the
\* gate, and what the poll then publishes, differ from the outcome and the
\* publication of a query the printer did not answer.
C7_BusyDistinct ==
    \A t \in Threads :
        /\ (QsReturned(t) /\ why[t] = "transport") => qret[t] = OfflineOutcome
        /\ (op[t] = "poll" /\ pc[t] = "done" /\ why[t] = "transport") =>
              pub[t] = OfflinePublished
        /\ (QsReturned(t) /\ why[t] = "busy") => qret[t] # OfflineOutcome
        /\ (op[t] = "poll" /\ pc[t] = "done" /\ why[t] = "busy") =>
              pub[t] # OfflinePublished

\* C8 (as claimed): a terminal command shows the busy message if and only if
\* its own acquire failed, and the no-answer message if and only if it held
\* the gate and got nothing from the printer.
C8_BusyIffNotAcquired ==
    \A t \in Threads :
        (op[t] = "term" /\ pc[t] = "done") =>
            /\ shown[t] = "busy" <=> ~acq[t]
            /\ shown[t] = "noanswer" <=> (acq[t] /\ resp[t] = Empty)

\* C9 (as claimed): neither the response _tcp_command returns nor the text a
\* status query parses as the temperature reply contains a byte of the banner.
C9_NoBannerBytes ==
    \A t \in Threads :
        /\ (pc[t] = "tc_finally" \/ TcReturned(t)) => ~HasBanner(resp[t])
        /\ pc[t] \in Parsed105Pcs => ~HasBanner(r105[t])

\* the part of C10 that both statements of it share: no exception leaves
\* _tcp_command, and a failure before the reply is read gives ""
NoEscape ==
    \A t \in Threads :
        (pc[t] = "tc_finally" \/ TcReturned(t)) =>
            /\ ~escaped[t]
            /\ why[t] = "transport" => resp[t] = Empty

\* C10 (as amended): _tcp_command never lets a transport exception reach its
\* caller; it returns "" on every transport failure before the reply is read
\* (connection refused, connect timeout, reset while sending), and when the
\* read of the reply ends by timeout, reset or end of stream it returns the
\* bytes read until then, which hold no newline and need not be empty.
C10_EmptyOrPartial ==
    /\ NoEscape
    /\ \A t \in Threads :
          ((pc[t] = "tc_finally" \/ TcReturned(t)) /\ rcvend[t] = "nodata") =>
              ~HasNewline(resp[t])

\* C10 witness: the read ended without a newline after bytes had arrived, and
\* _tcp_command returned them.
C10_Witness ==
    \E t \in Threads :
        /\ pc[t] = "term_check"
        /\ why[t] = "reply"
        /\ rcvend[t] = "nodata"
        /\ resp[t] # Empty

\* C10 (as claimed): _tcp_command returns "" on every transport failure, a
\* timeout while reading the reply included, and no exception reaches the caller.
C10_Original ==
    /\ NoEscape
    /\ \A t \in Threads :
          ((pc[t] = "tc_finally" \/ TcReturned(t)) /\ rcvend[t] = "nodata") =>
              resp[t] = Empty

\* the poll cycles that have not come to their end
PollsRunning == {t \in Threads : op[t] = "poll" /\ pc[t] # "done"}

\* C12 (as claimed): at every moment there is exactly one poll cycle that is
\* either running or scheduled: a cycle that ends, whatever its outcome, has
\* scheduled exactly one next cycle, so the loop neither stops nor forks.
C12_OneNextPoll == Cardinality(PollsRunning) + sched = 1

\* C19 (as claimed): a poll cycle that has left its bundled status session
\* makes no second acquisition of _tcp_lock and opens no second connection.
C19_OneSession ==
    \A t \in Threads :
        (op[t] = "poll" /\ pc[t] \in TcPcs) => (~acq[t] /\ nconn[t] = 0)

\* C20 (as claimed): a poll whose progress reply matches none of the three
\* grammars, or that got no reply, publishes a lifecycle that is none of
\* Idle, Printing and Paused.
C20_UnknownPublished ==
    [][\A t \in Threads :
          (/\ pc[t] = "poll_publish"
           /\ pub'[t] # << >>
           /\ (escaped[t] \/ StateOf(resp[t]) = None)) =>
              pub'[t][1].state \notin {"IDLE", "PRINTING", "PAUSED"}]_vars

\* C11 (as claimed): _recv_line's read loop has ended once the timeout the
\* call was given has elapsed, whatever the printer sends.
C11_RecvEndsByTimeout == rl_pc = "recv" => rl_clock <= rl_timeout

\* the byte marker the way the claim words it: "printing byte X/Y"
PrintingByte == << "p", "r", "i", "n", "t", "i", "n", "g", " ", "b", "y", "t", "e", " " >>
ClaimedByteMarker(reply) ==
    \E i \in 1..Len(reply) :
        MatchAt(reply, i, PrintingByte) /\ FractionAt(reply, i + Len(PrintingByte))

\* first match wins, with `marker` as the first pattern
FirstMatchWins(marker, reply) ==
    IF marker THEN "PRINTING"
    ELSE IF SearchPaused(reply) THEN "PAUSED"
    ELSE IF SearchNotPrinting(reply) THEN "IDLE"
    ELSE None

\* C13 (as amended): the lifecycle get_printer_state derives from a reply is
\* Printing exactly when the reply contains "SD printing byte X/Y", in this
\* letter case, with digits X and Y; Paused exactly when it does not and it
\* contains "paused" in any letter case; Idle exactly when neither holds and
\* it contains "not sd printing" in any letter case; None (Unknown) otherwise.
C13_FirstMatchWins ==
    m27_state # "pending" =>
        /\ m27_state = "PRINTING" <=> SearchByteMarker(m27_resp)
        /\ m27_state = "PAUSED" <=>
              (~SearchByteMarker(m27_resp) /\ SearchPaused(m27_resp))
        /\ m27_state = "IDLE" <=>
              (/\ ~SearchByteMarker(m27_resp)
               /\ ~SearchPaused(m27_resp)
               /\ SearchNotPrinting(m27_resp))
        /\ m27_state = None <=>
              (/\ ~SearchByteMarker(m27_resp)
               /\ ~SearchPaused(m27_resp)
               /\ ~SearchNotPrinting(m27_resp))

\* C13 witness: a reply with the not-printing phrase and "paused" in capitals
\* and no byte marker has been read as Paused.
C13_Witness ==
    /\ m27_state = "PAUSED"
    /\ SearchNotPrinting(m27_resp)
    /\ ~MatchAt(m27_resp, 1, PausedWord)
    /\ \E i \in 1..Len(m27_resp) : m27_resp[i] = "P"

\* C13 (as claimed): ... Printing if the reply contains a byte marker of the
\* shape "printing byte X/Y"; otherwise Paused, Idle, Unknown as above.
C13_Original ==
    m27_state # "pending" =>
        m27_state = FirstMatchWins(ClaimedByteMarker(m27_resp), m27_resp)

\* C14 (as claimed): a reply that contains both a byte marker and "paused" is
\* read as Paused.
C14_PausedOverridesBytes ==
    (/\ m27_state # "pending"
     /\ SearchByteMarker(m27_resp)
     /\ SearchPaused(m27_resp)) => m27_state = "PAUSED"

\* how many lines of text are M84 lines
M84Count(text) ==
    LET lines == splitlines(text)
    IN  Cardinality({i \in 1..Len(lines) : MatchM84(lines[i])})

\* how many times pat stands in text
Occurrences(text, pat) == Cardinality({i \in 1..Len(text) : MatchAt(text, i, pat)})

\* text with every pat cut out
RECURSIVE RemoveAll(_, _)
RemoveAll(text, pat) ==
    IF text = << >> THEN << >>
    ELSE IF MatchAt(text, 1, pat)
    THEN RemoveAll(SubSeq(text, Len(pat) + 1, Len(text)), pat)
    ELSE << Head(text) >> \o RemoveAll(Tail(text), pat)

RECURSIVE Repeat(_, _)
Repeat(pat, n) == IF n = 0 THEN << >> ELSE pat \o Repeat(pat, n - 1)

\* the characters of text right before the i-th of its lines are n copies
\* of block
PrecededBy(text, lines, i, n, block) ==
    LET start == Len(Join(SubSeq(lines, 1, i - 1))) + 1
        from == start - n * Len(block)
    IN  from >= 1 /\ SubSeq(text, from, start - 1) = Repeat(block, n)

\* every M84 line of text has exactly n copies of block right before it
EachM84Has(text, n, block) ==
    LET lines == splitlines(text)
    IN  \A i \in 1..Len(lines) :
            MatchM84(lines[i]) =>
                (PrecededBy(text, lines, i, n, block)
                 /\ ~PrecededBy(text, lines, i, n + 1, block))

\* C15: process_gcode(text, 0) returns text, character for character, line
\* endings included.
C15_ZeroUnchanged == (gc_runs >= 1 /\ gc_secs = 0) => gc_text = gc_orig

\* C15 witness: a document with an M84 line and "\r\n" endings went through
\* process_gcode with cooling_secs 0.
C15_Witness ==
    /\ gc_runs >= 1
    /\ gc_secs = 0
    /\ M84Count(gc_orig) >= 1
    /\ \E i \in 1..Len(gc_orig) : gc_orig[i] = "\r"

C25_Original ==
    \A t \in Threads :
        (op[t] = "poll" /\ pc[t] \in QsPcs) =>
            /\ tcp_lock = t => nconn[t] <= 1
            /\ (pc[t] = "qs_connect" /\ attempt[t] > 0) => tcp_lock # t

\* C25 (amended): a status query acquires _tcp_lock once and is its holder
\* from then until it returns, through every attempt: it releases the lock
\* not once before its finally clause, opens at most RETRIES connections
\* under the one hold, and has released the lock exactly once when it has
\* returned.
C25_HoldSpansQuery ==
    \A t \in Threads :
        /\ (op[t] = "poll" /\ pc[t] \in QsPcs \ {"qs_acquire"}) =>
               /\ tcp_lock = t
               /\ rel[t] = 0
               /\ nconn[t] <= RETRIES
               /\ attempt[t] < RETRIES
        /\ (QsReturned(t) /\ acq[t]) => (rel[t] = 1 /\ tcp_lock # t)

\* a query on the second connection of its one hold, while a command of
\* another thread waits for the lock
C25_Witness ==
    \E t, u \in Threads :
        /\ op[t] = "poll" /\ conn[t] /\ nconn[t] = 2 /\ tcp_lock = t
        /\ pc[u] = "tc_acquire"

\* C28 (as claimed): the text a status session parses as the progress reply
\* holds no byte of the temperature reply: what the printer sends in answer to
\* M105 after that reply's first newline, as a further line or in a later
\* packet, is never in r27.
C28_NoTemperatureBytes ==
    \A t \in Threads :
        \A i \in 1..Len(r27[t]) : r27[t][i].src # "M105"

\* a call of _tcp_command that got the lock, from its connect to the step of
\* the caller that follows its return
TcCall(t) == pc[t] \in (TcPcs \ {"tc_acquire"}) \/ (TcReturned(t) /\ acq[t])

\* C22: a call of _tcp_command opens at most one connection and writes at
\* most one command, its own, on it; so a call of pause_print, resume_print or
\* stop_print puts M25, M24 or M26 on the wire at most once.
C22_OneWritePerCall ==
    \A t \in Threads :
        TcCall(t) =>
            /\ nconn[t] <= 1
            /\ Len(wrote[t]) <= 1
            /\ \A i \in 1..Len(wrote[t]) : wrote[t][i] = cmd[t]

\* pause_print, resume_print or stop_print has written its command, once, and
\* has returned
C22_Witness ==
    \E t \in Threads :
        /\ pc[t] = "ui_status" /\ nconn[t] = 1
        /\ wrote[t] = << cmd[t] >>
        /\ cmd[t] \in {"M25", "M24", "M26"}

\* C27: in a run of the pause handler M25 is the command only after
\* get_printer_state gave PRINTING, M24 only after it gave PAUSED, and after
\* IDLE or None (the state was not determined) the handler calls
\* _tcp_command no more: nothing is written and it ends with its status line.
C27_CommandFollowsState ==
    \A t \in Threads :
        op[t] = "pause" =>
            /\ (cmd[t] = "M25" \/ Wrote(t, "M25")) => queried[t] = "PRINTING"
            /\ (cmd[t] = "M24" \/ Wrote(t, "M24")) => queried[t] = "PAUSED"
            /\ queried[t] \in {"IDLE", None} =>
                   /\ pc[t] = "done"
                   /\ cmd[t] = "M27"
                   /\ wrote[t] = << >>
                   /\ nconn[t] = 0

\* the handler has written M25 after a reply that says printing
C27_Witness ==
    \E t \in Threads :
        /\ op[t] = "pause" /\ queried[t] = "PRINTING"
        /\ wrote[t] = << "M25" >> /\ pc[t] = "tc_recv"

\* the handler has written M24 after a reply that says paused
C27_ResumeReached ==
    \E t \in Threads :
        /\ op[t] = "pause" /\ queried[t] = "PAUSED"
        /\ wrote[t] = << "M24" >> /\ pc[t] = "tc_recv"

\* the handler has ended without a command: the reply said idle, or there was
\* none
C27_NoCommandReached ==
    \E t \in Threads :
        /\ op[t] = "pause" /\ queried[t] \in {"IDLE", None}
        /\ pc[t] = "done" /\ shown[t] = "badstate"

\* C23 (as claimed): no call that talks to the printer (_query_printer_status,
\* and _tcp_command for the state query, pause, resume, stop and the terminal)
\* is made by the Tk main loop: the slot that is inside such a call is never
\* the one whose handler the main loop is running.
C23_NotOnUiThread == \A t \in Threads : InCall(t) => ui_thread # t

\* C26 (as claimed): a run of the pause handler is atomic on the wire: between
\* its state query and the M25 or M24 that follows, while the handler is on
\* its way to that command, no other thread has a command on a connection to
\* the printer.
C26_PauseActionAtomic ==
    \A t, u \in Threads :
        ( /\ t # u
          /\ op[t] = "pause"
          /\ cmd[t] \in {"M25", "M24"}
          /\ pc[t] = "tc_acquire" )
        => ~(conn[u] /\ wrote[u] # << >>)

\* C24 (as claimed): every progress pair the status query makes of a progress
\* reply has bytesDone <= bytesTotal, whatever the reply.
C24_DoneWithinTotal ==
    (m27_prog.parsed /\ m27_prog.pm) => m27_prog.done <= m27_prog.total

\* the response was an object whose "err" is the number zero
NumericZeroErr ==
    /\ up_reply.met = "response"
    /\ up_reply.body.kind = "object"
    /\ up_reply.body.has_err
    /\ up_reply.body.err \in {Json("int", 0), Json("float", 0)}

\* C21 (as claimed): upload_gcode returns success exactly when the body of
\* the response parsed as an object whose "err" is a number equal to 0, and
\* no exception leaves it.
C21_Original ==
    up_pc = "returned" =>
        /\ ~up_result.raised
        /\ up_result.ok <=> NumericZeroErr

\* C21 (amended): upload_gcode returns success exactly when the body of the
\* response parsed as an object whose "err" is a number equal to 0 or the
\* boolean false; no "err", any other value, a body that is no object, a
\* timeout, a transport failure and a missing requests module give failure,
\* and no exception leaves it.
C21_SuccessIffErrEqualsZero ==
    up_pc = "returned" =>
        /\ ~up_result.raised
        /\ up_result.ok <=>
               (NumericZeroErr \/ ( /\ up_reply.met = "response"
                                    /\ up_reply.body.kind = "object"
                                    /\ up_reply.body.has_err
                                    /\ up_reply.body.err = Json("bool", 0) ))

\* upload_gcode returned success on a body whose "err" is false
C21_Witness ==
    /\ up_pc = "returned"
    /\ up_result.ok
    /\ up_reply.body.err = Json("bool", 0)

\* C29 (as claimed): when no call of append_history is under way, after n
\* entries in all, history.json is a list of min(n, 200) entries that holds
\* every one of the last min(n, 200) entries made.
C29_NoEntryLost ==
    LET n == hs_next - 1
        first == IF n > HISTORY_CAP THEN n - HISTORY_CAP + 1 ELSE 1
    IN  ((\A t \in Senders : hs_pc[t] = "idle") /\ n > 0) =>
            /\ hs_file.ok
            /\ Len(hs_file.entries) = n - first + 1
            /\ \A e \in first..n :
                   \E i \in 1..Len(hs_file.entries) : hs_file.entries[i] = e

\* no scan is running and no list waits to be rendered
RfQuiet == ~rf_scan.set /\ ~rf_render.set

\* C30 (as claimed): once every scan has finished, and the last one did not
\* fail, _loading is False and the list on display was scanned with the
\* search text and the sort key as they were at the last trigger, which is as
\* they are now: no trigger that came during a scan was lost.
C30_ShowsLastTrigger ==
    (RfQuiet /\ rf_status # "error") =>
        /\ ~rf_loading
        /\ rf_shown = ScanArgs(rf_search, rf_sort)

============================================================================
